---- MODULE Spec2Model ----
(***************************************************************************)
(* RealTimeDataCollector (src/python/data_collection/realtime_collector.py)*)
(* as a state machine: the poll loop (_collection_loop), the processing    *)
(* worker thread (_processing_worker), a thread calling stop_collection,   *)
(* the bounded tick_queue between them, the per-symbol tick rings and OHLC *)
(* state, and the flush (_save_all_buffers).                               *)
(*                                                                         *)
(* Representation.  A datetime is its count of seconds; None is -1.        *)
(* Prices are integers (bid and ask are even, so the mid-price is exact).  *)
(* Wall-clock tests (one second elapsed, save interval elapsed, the join   *)
(* timeout) are nondeterministic choices; stats['last_save'] counts the    *)
(* flushes completed.                                                      *)
(***************************************************************************)
EXTENDS Integers, Sequences, FiniteSets, TLC

\* ---------------------------------------------------------------- bounds
\* self.buffer_size (10000 in the source), scaled down
buffer_size == 2
\* queue.Queue(maxsize=50000), scaled down
QueueMaxSize == 2
\* ticks fed to _process_tick in SpecTicks
MaxTicks == 4
\* calls of mt5.symbol_info_tick in Spec
MaxPolls == 3
\* periodic _save_all_buffers calls of the poll loop in Spec
MaxSaves == 1
\* one-second statistics updates of the poll loop in Spec
MaxStatsLogs == 1
MaxStarts == 2
MaxRestartTicks == 2

\* ------------------------------------------------------ program constants
CompletedBarsMaxLen == 1440
SecondsPerMinute == 60

None == -1

Symbols == <<"WINM25", "WDOM25">>
SymbolSet == {Symbols[i] : i \in 1..Len(Symbols)}

\* quotes the provider may return: time in seconds, bid (ask = bid + 2); the
\* last-trade price is the bid, except in SpecDirection, where it is any of Lasts
Times == {0, 59, 60, 120}
Bids == {10, 12}
Lasts == {11, 13}
ProviderSpread == 2
\* the quotes polled in Spec: the n-th tick the provider returns is stamped
\* PollSpacing * n seconds, at a fixed bid
PollSpacing == 30
PollBid == 10

Max(a, b) == IF a >= b THEN a ELSE b
Min(a, b) == IF a <= b THEN a ELSE b
Sign(x) == IF x > 0 THEN 1 ELSE IF x < 0 THEN -1 ELSE 0

\* ------------------------------------------------------------ pure parts

\* collections.deque(maxlen=...).append: the oldest entry is discarded when full
DequeAppend_NoEvict(d, x, maxlen) ==
    IF Len(d) >= maxlen THEN d ELSE Append(d, x)

DequeAppend(d, x, maxlen) ==
    IF Len(d) >= maxlen THEN Append(Tail(d), x) ELSE Append(d, x)

\* what mt5.symbol_info_tick returns for a quote
Quote(t, b, l, msc) ==
    [time |-> t, bid |-> b, ask |-> b + ProviderSpread, last |-> l,
     time_msc |-> msc, volume_real |-> 1]

\* _collect_single_tick: the tick dictionary built from the provider's quote
TickData(symbol, q) ==
    [symbol |-> symbol, time |-> q.time, bid |-> q.bid, ask |-> q.ask,
     last |-> q.last, time_msc |-> q.time_msc, volume_real |-> q.volume_real,
     spread |-> q.ask - q.bid, mid_price |-> (q.bid + q.ask) \div 2]

\* current_time.replace(second=0, microsecond=0)
MinuteOf(t) == t - (t % SecondsPerMinute)

\* the bar appended to completed_bars when a bar is sealed
CompletedBar(symbol, o) ==
    [symbol |-> symbol, time |-> o.current_minute, open |-> o.open,
     high |-> o.high, low |-> o.low, close |-> o.close, volume |-> o.volume,
     tick_count |-> o.tick_count,
     typical_price |-> o.total_price \div Max(o.tick_count, 1)]

\* a slip: the first tick of a symbol is counted as sealing a bar
SealsBar_NoNoneTest(o, tick) ==
    o.current_minute # MinuteOf(tick.time)

\* does this tick seal the open bar?
SealsBar(o, tick) ==
    o.current_minute # MinuteOf(tick.time) /\ o.current_minute # None

\* a slip: the open bar's minute is compared with the tick's time, not its minute
UpdateOhlcBuffer_RawTime(o, tick) ==
    LET mid == tick.mid_price
        isNew == o.current_minute # tick.time
        o1 == IF isNew /\ o.current_minute # None
              THEN [o EXCEPT !.completed_bars =
                       DequeAppend(@, CompletedBar(tick.symbol, o), CompletedBarsMaxLen)]
              ELSE o
        o2 == IF isNew
              THEN [o1 EXCEPT !.current_minute = MinuteOf(tick.time), !.open = mid,
                              !.high = mid, !.low = mid, !.close = mid,
                              !.volume = 0, !.tick_count = 0, !.total_price = 0]
              ELSE o1
    IN [o2 EXCEPT !.high = Max(@, mid), !.low = Min(@, mid), !.close = mid,
                  !.volume = @ + tick.volume_real, !.tick_count = @ + 1,
                  !.total_price = @ + mid]

\* a slip: the new bar keeps the tick_count of the bar before it
UpdateOhlcBuffer_NoReset(o, tick) ==
    LET mid == tick.mid_price
        isNew == o.current_minute # MinuteOf(tick.time)
        o1 == IF isNew /\ o.current_minute # None
              THEN [o EXCEPT !.completed_bars =
                       DequeAppend(@, CompletedBar(tick.symbol, o), CompletedBarsMaxLen)]
              ELSE o
        o2 == IF isNew
              THEN [o1 EXCEPT !.current_minute = MinuteOf(tick.time), !.open = mid,
                              !.high = mid, !.low = mid, !.close = mid,
                              !.volume = 0, !.total_price = 0]
              ELSE o1
    IN [o2 EXCEPT !.high = Max(@, mid), !.low = Min(@, mid), !.close = mid,
                  !.volume = @ + tick.volume_real, !.tick_count = @ + 1,
                  !.total_price = @ + mid]

\* _update_ohlc_buffer on one symbol's OHLC state
UpdateOhlcBuffer(o, tick) ==
    LET mid == tick.mid_price
        isNew == o.current_minute # MinuteOf(tick.time)
        o1 == IF isNew /\ o.current_minute # None
              THEN [o EXCEPT !.completed_bars =
                       DequeAppend(@, CompletedBar(tick.symbol, o), CompletedBarsMaxLen)]
              ELSE o
        o2 == IF isNew
              THEN [o1 EXCEPT !.current_minute = MinuteOf(tick.time), !.open = mid,
                              !.high = mid, !.low = mid, !.close = mid,
                              !.volume = 0, !.tick_count = 0, !.total_price = 0]
              ELSE o1
    IN [o2 EXCEPT !.high = Max(@, mid), !.low = Min(@, mid), !.close = mid,
                  !.volume = @ + tick.volume_real, !.tick_count = @ + 1,
                  !.total_price = @ + mid]

\* _calculate_tick_direction, called after the tick was appended to the ring
CalculateTickDirection(buffer, tick) ==
    IF Len(buffer) < 2 THEN 0
    ELSE LET prev_price == buffer[Len(buffer) - 1].mid_price
         IN IF tick.mid_price > prev_price THEN 1
            ELSE IF tick.mid_price < prev_price THEN -1
            ELSE 0

\* tick['direction'] = ...: the dictionary held by the ring gains the key
WithDirection(tick, d) ==
    [f \in DOMAIN tick \cup {"direction"} |->
        IF f = "direction" THEN d ELSE tick[f]]

\* the tick as it was handed to _process_tick
Stripped(t) == [f \in DOMAIN t \ {"direction"} |-> t[f]]

\* ------------------------------------------------------------------ state
VARIABLES
    tick_buffers,          \* symbol -> ring of ticks
    ohlc_buffers,          \* symbol -> OHLC state with completed_bars
    stats,                 \* self.stats
    tick_queue,            \* queue.Queue(maxsize)
    is_collecting, stop_event, mt5_initialized,
    ppc, psym,             \* poll loop: position, index into self.symbols
    tick_count_for_stats,  \* local of _collection_loop
    wpc, wtick,            \* worker: position, tick in hand
    spc, ssym,             \* stop_collection caller: position, index
    polls, saves,          \* provider calls and periodic saves made
    accepted,              \* ticks accepted by tick_queue, in order
    rejected,              \* put() calls that raised queue.Full
    processed,             \* ticks passed to _process_tick, in order
    save_errors,           \* symbol -> "Error saving buffers" lines logged
    tick_save_result,      \* how the latest _save_tick_buffer call ended
    late_call,             \* symbol_info_tick was called after mt5.shutdown()
    \* HistoricalDataCollector (historical_collector.py)
    provider_ticks,        \* the ticks the provider holds, in time order
    hist_mt5_initialized,  \* HistoricalDataCollector.mt5_initialized
    hpc, hsym,             \* collect_all_symbols: position, index into self.symbols
    current_date, attempt, \* collect_historical_ticks: locals of the chunk loop
    all_ticks,             \* collect_historical_ticks: the chunk frames collected
    tick_success,          \* collect_all_symbols: result of the tick collection
    results,               \* collect_all_symbols: symbol -> status entry
    files,                 \* symbol -> the tick table on disk
    requests,              \* copy_ticks_range calls of the current tick collection
    exhausted,             \* chunk starts whose three attempts all failed
    runs,                  \* calls of collect_all_symbols made
    \* TapeReadingFeatures (tape_reading_features.py)
    tick_data,             \* the batch handed to extract_features
    fpc,                   \* how the call ended
    warned,                \* "Dados nao estao ordenados por tempo" was logged
    df,                    \* extract_features: the prepared frame
    flow,                  \* the window values of the volume-flow family
    price_action,          \* the window values of the price-action family
    calls,                 \* the extract_features calls that have ended
    \* RealTimeDataCollector over several start_collection calls
    workers,               \* the _processing_worker threads started so far
    processing_thread,     \* self.processing_thread: the thread started last
    \* ConfigManager
    config_file,           \* the settings file at config_path
    config,                \* self.config: the loaded document
    typed,                 \* self.trading, self.risk, self.ml, ...: the typed objects
    cpc,                   \* "new", "ready", or the exception __init__ raised
    valid,                 \* what the last validate_config call returned
    errors,                \* the errors the last validate_config call reported
    update,                \* the last update_runtime_config call
    lookup                 \* how a component's self.config.get(...) call ended

collectorVars == <<tick_buffers, ohlc_buffers, stats, tick_queue, is_collecting,
          stop_event, mt5_initialized, ppc, psym, tick_count_for_stats,
          wpc, wtick, spc, ssym, polls, saves, accepted, rejected, processed,
          save_errors, tick_save_result, late_call>>

histVars == <<provider_ticks, hist_mt5_initialized, hpc, hsym, current_date,
              attempt, all_ticks, tick_success, results, files, requests,
              exhausted, runs>>

featVars == <<tick_data, fpc, warned, df, flow, price_action, calls>>

threadVars == <<workers, processing_thread>>
configVars == <<config_file, config, typed, cpc, valid, errors, update, lookup>>
extraVars == <<threadVars, configVars>>
batchVars == <<histVars, featVars, extraVars>>

vars == <<collectorVars, batchVars>>

bufferVars == <<tick_buffers, ohlc_buffers>>
pollVars == <<ppc, psym, tick_count_for_stats>>
workerVars == <<wpc, wtick>>
stopVars == <<spc, ssym>>

NoTick == [symbol |-> "none"]

\* ConfigManager before __init__: no document, no update_runtime_config call
NoDocument == <<>>
NoUpdate == [called |-> FALSE]

\* no _processing_worker thread was started yet
NoThread == [pc |-> "unstarted", tick |-> NoTick, total |-> 0]

\* the parts of the state that a specification of one component leaves idle
InitExtra ==
    /\ workers = [w \in 1..MaxStarts |-> NoThread]
    /\ processing_thread = None
    /\ config_file = [kind |-> "missing"]
    /\ config = NoDocument
    /\ typed = NoDocument
    /\ cpc = "new"
    /\ valid = "not_called"
    /\ errors = {}
    /\ update = NoUpdate
    /\ lookup = "not_called"

\* __init__ and _initialize_buffers
InitCollector ==
    /\ tick_buffers = [s \in SymbolSet |-> <<>>]
    /\ ohlc_buffers = [s \in SymbolSet |->
          [current_minute |-> None, open |-> None, high |-> None, low |-> None,
           close |-> None, volume |-> 0, tick_count |-> 0, total_price |-> 0,
           completed_bars |-> <<>>]]
    /\ stats = [total_ticks |-> 0, ticks_per_second |-> 0, collection_errors |-> 0,
                last_save |-> 0,
                symbols_stats |-> [s \in SymbolSet |->
                    [total_ticks |-> 0, last_tick_time |-> None,
                     avg_spread |-> 0, ohlc_bars |-> 0]]]
    /\ tick_queue = <<>>
    /\ is_collecting = FALSE
    /\ stop_event = FALSE
    /\ mt5_initialized = FALSE
    /\ ppc = "idle" /\ psym = 1 /\ tick_count_for_stats = 0
    /\ wpc = "off" /\ wtick = NoTick
    /\ spc = "idle" /\ ssym = 1
    /\ polls = 0 /\ saves = 0
    /\ accepted = <<>> /\ rejected = 0 /\ processed = <<>>
    /\ save_errors = [s \in SymbolSet |-> 0]
    /\ tick_save_result = "none"
    /\ late_call = FALSE

\* HistoricalDataCollector.__init__; no collection was started, no file exists
NoFile == [exists |-> FALSE, rows |-> <<>>, complete |-> FALSE, run |-> 0,
           replaced_complete |-> FALSE]

InitHistoricalWith(ticks) ==
    /\ provider_ticks = ticks
    /\ hist_mt5_initialized = FALSE
    /\ hpc = "idle" /\ hsym = 1
    /\ current_date = 0 /\ attempt = 0
    /\ all_ticks = <<>>
    /\ tick_success = FALSE
    /\ results = <<>>
    /\ files = [s \in SymbolSet |-> NoFile]
    /\ requests = <<>>
    /\ exhausted = {}
    /\ runs = 0

\* both collectors constructed, the provider holding no historical ticks
Init ==
    /\ InitCollector
    /\ InitHistoricalWith(<<>>)
    /\ tick_data = [columns |-> {}, rows |-> <<>>]
    /\ fpc = "ready" /\ warned = FALSE /\ df = <<>> /\ flow = <<>>
    /\ price_action = <<>> /\ calls = <<>>
    /\ InitExtra

\* _process_tick(tick): ring append, statistics, OHLC, direction
ProcessTick(tick) ==
    LET s == tick.symbol
        ring == DequeAppend(tick_buffers[s], tick, buffer_size)
        d == CalculateTickDirection(ring, tick)
        n == stats.symbols_stats[s].total_ticks + 1
        ss == stats.symbols_stats[s]
    IN /\ tick_buffers' = [tick_buffers EXCEPT
              ![s] = [ring EXCEPT ![Len(ring)] = WithDirection(tick, d)]]
       /\ ohlc_buffers' = [ohlc_buffers EXCEPT ![s] = UpdateOhlcBuffer(@, tick)]
       /\ stats' = [stats EXCEPT
              !.total_ticks = @ + 1,
              !.symbols_stats[s] =
                  [total_ticks |-> n,
                   last_tick_time |-> tick.time,
                   avg_spread |-> (ss.avg_spread * (n - 1) + tick.spread) \div n,
                   ohlc_bars |-> ss.ohlc_bars +
                       IF SealsBar(ohlc_buffers[s], tick) THEN 1 ELSE 0]]
       /\ processed' = Append(processed, tick)

\* --------------------------------------------- SpecTicks: _process_tick alone
\* any tick sequence, for any symbol, is handed to _process_tick
FeedTick ==
    /\ Len(processed) < MaxTicks
    /\ \E s \in SymbolSet, t \in Times, b \in Bids :
          ProcessTick(TickData(s, Quote(t, b, b, Len(processed) + 1)))
    /\ UNCHANGED <<batchVars, tick_queue, is_collecting, stop_event,
                   mt5_initialized, pollVars, workerVars, stopVars, polls, saves,
                   accepted, rejected, save_errors, tick_save_result, late_call>>

NextTicks == FeedTick

SpecTicks == Init /\ [][NextTicks]_vars

\* ------------------------- SpecDirection: _process_tick with last-trade prices
\* ticks whose last-trade price moves independently of bid and ask
FeedLastTick ==
    /\ Len(processed) < MaxTicks
    /\ \E s \in SymbolSet, b \in Bids, l \in Lasts :
          ProcessTick(TickData(s, Quote(0, b, l, Len(processed) + 1)))
    /\ UNCHANGED <<batchVars, tick_queue, is_collecting, stop_event,
                   mt5_initialized, pollVars, workerVars, stopVars, polls, saves,
                   accepted, rejected, save_errors, tick_save_result, late_call>>

NextDirection == FeedLastTick

SpecDirection == Init /\ [][NextDirection]_vars


\* ------------------------------------------------ Spec: the running system
NSym == Len(Symbols)

\* start_collection: initialize_mt5 succeeds, the worker thread is started and
\* the caller enters _collection_loop
StartCollection ==
    /\ ppc = "idle"
    /\ ~is_collecting
    /\ mt5_initialized' = TRUE
    /\ is_collecting' = TRUE
    /\ stop_event' = FALSE
    /\ wpc' = "loop"
    /\ ppc' = "check"
    /\ UNCHANGED <<batchVars, bufferVars, stats, tick_queue, psym, tick_count_for_stats, wtick,
                   stopVars, polls, saves, accepted, rejected, processed,
                   save_errors, tick_save_result, late_call>>

\* start_collection: mt5.initialize() fails and the call raises
StartCollectionFails ==
    /\ ppc = "idle"
    /\ ~mt5_initialized
    /\ ppc' = "raised"
    /\ UNCHANGED <<batchVars, bufferVars, stats, tick_queue, is_collecting, stop_event,
                   mt5_initialized, psym, tick_count_for_stats, workerVars,
                   stopVars, polls, saves, accepted, rejected, processed,
                   save_errors, tick_save_result, late_call>>

\* _collection_loop: the while condition
PollCheck ==
    /\ ppc = "check"
    /\ IF is_collecting /\ ~stop_event
       THEN ppc' = "collect" /\ psym' = 1
       ELSE ppc' = "done" /\ psym' = psym
    /\ UNCHANGED <<batchVars, bufferVars, stats, tick_queue, is_collecting, stop_event,
                   mt5_initialized, tick_count_for_stats, workerVars, stopVars,
                   polls, saves, accepted, rejected, processed, save_errors,
                   tick_save_result, late_call>>

\* after the body of "for symbol in self.symbols" for index psym
AfterSymbol ==
    IF psym < NSym THEN ppc' = "collect" /\ psym' = psym + 1
    ELSE ppc' = "stats" /\ psym' = psym

\* _collect_single_tick returns None: the provider has no tick (or the call raised)
PollNoTick ==
    /\ ppc = "collect"
    /\ late_call' = (late_call \/ ~mt5_initialized)
    /\ AfterSymbol
    /\ UNCHANGED <<batchVars, bufferVars, stats, tick_queue, is_collecting, stop_event,
                   mt5_initialized, tick_count_for_stats, workerVars, stopVars,
                   polls, saves, accepted, rejected, processed, save_errors,
                   tick_save_result>>

\* a tick is collected and tick_queue.put(tick, block=False) accepts it
PollEnqueue ==
    /\ ppc = "collect"
    /\ mt5_initialized
    /\ polls < MaxPolls
    /\ Len(tick_queue) < QueueMaxSize
    /\ LET tick == TickData(Symbols[psym],
                             Quote(PollSpacing * (polls + 1), PollBid, PollBid,
                                   polls + 1))
       IN /\ tick_queue' = Append(tick_queue, tick)
          /\ accepted' = Append(accepted, tick)
    /\ polls' = polls + 1
    /\ tick_count_for_stats' = tick_count_for_stats + 1
    /\ AfterSymbol
    /\ UNCHANGED <<batchVars, bufferVars, stats, is_collecting, stop_event, mt5_initialized,
                   workerVars, stopVars, saves, rejected, processed, save_errors,
                   tick_save_result, late_call>>

\* a tick is collected and put raises queue.Full: the handler of the loop body
\* counts an error and sleeps; the remaining symbols of the cycle are skipped
PollQueueFull ==
    /\ ppc = "collect"
    /\ mt5_initialized
    /\ polls < MaxPolls
    /\ Len(tick_queue) >= QueueMaxSize
    /\ polls' = polls + 1
    /\ rejected' = rejected + 1
    /\ stats' = [stats EXCEPT !.collection_errors = @ + 1]
    /\ ppc' = "check"
    /\ UNCHANGED <<batchVars, bufferVars, tick_queue, is_collecting, stop_event,
                   mt5_initialized, psym, tick_count_for_stats, workerVars,
                   stopVars, saves, accepted, processed, save_errors, tick_save_result,
                   late_call>>

\* a second has passed: ticks_per_second is set and self._log_collection_stats(),
\* which the class does not define, raises AttributeError into the handler
PollStatsUpdate ==
    /\ ppc = "stats"
    /\ stats.collection_errors - rejected < MaxStatsLogs
    /\ stats' = [stats EXCEPT !.ticks_per_second = tick_count_for_stats,
                              !.collection_errors = @ + 1]
    /\ tick_count_for_stats' = 0
    /\ ppc' = "check"
    /\ UNCHANGED <<batchVars, bufferVars, tick_queue, is_collecting, stop_event,
                   mt5_initialized, psym, workerVars, stopVars, polls, saves,
                   accepted, rejected, processed, save_errors, tick_save_result,
                   late_call>>

\* the save interval has passed: the poll loop enters _save_all_buffers
PollSaveDue ==
    /\ ppc = "stats"
    /\ saves < MaxSaves
    /\ saves' = saves + 1
    /\ ppc' = "save"
    /\ psym' = 1
    /\ UNCHANGED <<batchVars, bufferVars, stats, tick_queue, is_collecting, stop_event,
                   mt5_initialized, tick_count_for_stats, workerVars, stopVars,
                   polls, accepted, rejected, processed, save_errors, tick_save_result,
                   late_call>>

\* neither interval has passed: asyncio.sleep and the next cycle
PollSleep ==
    /\ ppc = "stats"
    /\ ppc' = "check"
    /\ UNCHANGED <<batchVars, bufferVars, stats, tick_queue, is_collecting, stop_event,
                   mt5_initialized, psym, tick_count_for_stats, workerVars,
                   stopVars, polls, saves, accepted, rejected, processed,
                   save_errors, tick_save_result, late_call>>

\* a slip: the ring is cleared before the symbol's files are written
SaveBuffersOf_ClearsFirst(s) ==
    /\ tick_buffers' = [tick_buffers EXCEPT ![s] = <<>>]
    /\ ohlc_buffers' = ohlc_buffers
    /\ save_errors' = [save_errors EXCEPT ![s] = @ + 1]
    /\ tick_save_result' = "raised"

\* the body of the loop of _save_all_buffers for one symbol.
\* _save_tick_buffer returns at once on an empty ring; otherwise it builds the
\* DataFrame and the file path and ends there (nothing is written, nothing is
\* cleared), or raises.  _save_ohlc_buffer is not defined by the class, so the
\* call raises AttributeError.  Either exception is logged by the handler.
SaveBuffersOf(s) ==
    /\ UNCHANGED bufferVars
    /\ save_errors' = [save_errors EXCEPT ![s] = @ + 1]
    /\ IF tick_buffers[s] = <<>>
       THEN tick_save_result' = "empty"
       ELSE tick_save_result' \in {"returned", "raised"}

\* _save_all_buffers in the poll loop, one symbol; after the last symbol
\* stats['last_save'] is set and the loop sleeps
PollSaveSymbol ==
    /\ ppc = "save"
    /\ SaveBuffersOf(Symbols[psym])
    /\ IF psym < NSym
       THEN psym' = psym + 1 /\ ppc' = "save" /\ stats' = stats
       ELSE psym' = psym /\ ppc' = "check"
            /\ stats' = [stats EXCEPT !.last_save = @ + 1]
    /\ UNCHANGED <<batchVars, tick_queue, is_collecting, stop_event, mt5_initialized,
                   tick_count_for_stats, workerVars, stopVars, polls, saves,
                   accepted, rejected, processed, late_call>>

\* _processing_worker: the while condition
WorkerCheck ==
    /\ wpc = "loop"
    /\ wpc' = IF is_collecting \/ tick_queue # <<>> THEN "get" ELSE "exit"
    /\ UNCHANGED <<batchVars, bufferVars, stats, tick_queue, is_collecting, stop_event,
                   mt5_initialized, pollVars, wtick, stopVars, polls, saves,
                   accepted, rejected, processed, save_errors, tick_save_result,
                   late_call>>

\* a slip: the newest tick is taken
WorkerGet_Newest ==
    /\ wpc = "get"
    /\ tick_queue # <<>>
    /\ wtick' = tick_queue[Len(tick_queue)]
    /\ tick_queue' = SubSeq(tick_queue, 1, Len(tick_queue) - 1)
    /\ wpc' = "process"
    /\ UNCHANGED <<batchVars, bufferVars, stats, is_collecting, stop_event, mt5_initialized,
                   pollVars, stopVars, polls, saves, accepted, rejected,
                   processed, save_errors, tick_save_result, late_call>>

\* tick_queue.get(timeout=1) returns the oldest tick
WorkerGet ==
    /\ wpc = "get"
    /\ tick_queue # <<>>
    /\ wtick' = Head(tick_queue)
    /\ tick_queue' = Tail(tick_queue)
    /\ wpc' = "process"
    /\ UNCHANGED <<batchVars, bufferVars, stats, is_collecting, stop_event, mt5_initialized,
                   pollVars, stopVars, polls, saves, accepted, rejected,
                   processed, save_errors, tick_save_result, late_call>>

\* tick_queue.get(timeout=1) raises queue.Empty: continue
WorkerTimeout ==
    /\ wpc = "get"
    /\ tick_queue = <<>>
    /\ wpc' = "loop"
    /\ UNCHANGED <<batchVars, bufferVars, stats, tick_queue, is_collecting, stop_event,
                   mt5_initialized, pollVars, wtick, stopVars, polls, saves,
                   accepted, rejected, processed, save_errors, tick_save_result,
                   late_call>>

\* self._process_tick(tick); self.tick_queue.task_done()
WorkerProcess ==
    /\ wpc = "process"
    /\ ProcessTick(wtick)
    /\ wtick' = NoTick
    /\ wpc' = "loop"
    /\ UNCHANGED <<batchVars, tick_queue, is_collecting, stop_event, mt5_initialized,
                   pollVars, stopVars, polls, saves, accepted, rejected,
                   save_errors, tick_save_result, late_call>>

\* stop_collection, called on another thread while collecting: the flags
StopCollection ==
    /\ spc = "idle"
    /\ is_collecting
    /\ is_collecting' = FALSE
    /\ stop_event' = TRUE
    /\ spc' = "join"
    /\ UNCHANGED <<batchVars, bufferVars, stats, tick_queue, mt5_initialized, pollVars,
                   workerVars, ssym, polls, saves, accepted, rejected, processed,
                   save_errors, tick_save_result, late_call>>

\* processing_thread.join(timeout=5): the worker has exited, or the timeout passed
StopJoin ==
    /\ spc = "join"
    /\ spc' = "save"
    /\ ssym' = 1
    /\ UNCHANGED <<batchVars, bufferVars, stats, tick_queue, is_collecting, stop_event,
                   mt5_initialized, pollVars, workerVars, polls, saves, accepted,
                   rejected, processed, save_errors, tick_save_result, late_call>>

\* _save_all_buffers in stop_collection, one symbol
StopSaveSymbol ==
    /\ spc = "save"
    /\ SaveBuffersOf(Symbols[ssym])
    /\ IF ssym < NSym
       THEN ssym' = ssym + 1 /\ spc' = "save" /\ stats' = stats
       ELSE ssym' = ssym /\ spc' = "shutdown"
            /\ stats' = [stats EXCEPT !.last_save = @ + 1]
    /\ UNCHANGED <<batchVars, tick_queue, is_collecting, stop_event, mt5_initialized,
                   pollVars, workerVars, polls, saves, accepted, rejected,
                   processed, late_call>>

\* mt5.shutdown() and the end of stop_collection
StopShutdown ==
    /\ spc = "shutdown"
    /\ mt5_initialized' = FALSE
    /\ spc' = "done"
    /\ UNCHANGED <<batchVars, bufferVars, stats, tick_queue, is_collecting, stop_event,
                   pollVars, workerVars, ssym, polls, saves, accepted, rejected,
                   processed, save_errors, tick_save_result, late_call>>

Next ==
    \/ StartCollection
    \/ StartCollectionFails
    \/ PollCheck
    \/ PollNoTick
    \/ PollEnqueue
    \/ PollQueueFull
    \/ PollStatsUpdate
    \/ PollSaveDue
    \/ PollSleep
    \/ PollSaveSymbol
    \/ WorkerCheck
    \/ WorkerGet
    \/ WorkerTimeout
    \/ WorkerProcess
    \/ StopCollection
    \/ StopJoin
    \/ StopSaveSymbol
    \/ StopShutdown

Spec == Init /\ [][Next]_vars

\* ------------------ SpecHistorical: HistoricalDataCollector.collect_all_symbols
\* (src/python/data_collection/historical_collector.py).  A datetime is its
\* count of hours.

\* date_from and date_to of the collection, chunk_hours, and the number of
\* collect_all_symbols calls
DateFrom == 0
DateTo == 4
ChunkHours == 2
MaxRuns == 2

\* "if attempt == 2" in the handler of "for attempt in range(3)"
LastAttempt == 2

\* the provider holds at most one tick per hour strictly inside the range; a
\* fixture gives each hour a last-trade price, or None for no tick
FixtureTimes == (DateFrom + 1)..(DateTo - 1)
Fixtures == [FixtureTimes -> Lasts \cup {None}]

RECURSIVE TicksFrom(_, _)
TicksFrom(f, t) ==
    IF t > DateTo - 1 THEN <<>>
    ELSE (IF f[t] = None THEN <<>>
          ELSE <<[time |-> t, bid |-> PollBid, ask |-> PollBid + ProviderSpread,
                  last |-> f[t]]>>) \o TicksFrom(f, t + 1)

\* mt5.copy_ticks_range(symbol, date_from, date_to, COPY_TICKS_ALL) when it
\* returns an array: the ticks stamped within the requested range, ends included
CopyTicksRange(from, to) ==
    SelectSeq(provider_ticks, LAMBDA t : t.time >= from /\ t.time <= to)

\* HistoricalDataCollector._calculate_tick_direction on one frame
HistTickDirection(ticks) ==
    [i \in 1..Len(ticks) |->
        IF i = 1 THEN 0 ELSE Sign(ticks[i].last - ticks[i - 1].last)]

\* the frame collect_historical_ticks builds from one chunk's ticks
ChunkFrame(ticks, symbol) ==
    [i \in 1..Len(ticks) |->
        [time |-> ticks[i].time, bid |-> ticks[i].bid, ask |-> ticks[i].ask,
         last |-> ticks[i].last, symbol |-> symbol,
         direction |-> HistTickDirection(ticks)[i],
         spread |-> ticks[i].ask - ticks[i].bid]]

\* pd.concat(all_ticks, ignore_index=True)
RECURSIVE Concat(_)
Concat(frames) ==
    IF frames = <<>> THEN <<>> ELSE Head(frames) \o Concat(Tail(frames))

SameKey(a, b) == a.time = b.time /\ a.bid = b.bid /\ a.ask = b.ask

\* a slip: no row is dropped
DropDuplicates_KeepAll(rows) ==
    rows

\* final_df.drop_duplicates(['time', 'bid', 'ask']): the first row of each key stays
DropDuplicates(rows) ==
    LET kept == SelectSeq([i \in 1..Len(rows) |-> [row |-> rows[i], index |-> i]],
                   LAMBDA r : ~\E j \in 1..(r.index - 1) : SameKey(rows[j], r.row))
    IN [i \in 1..Len(kept) |-> kept[i].row]

\* one pass of the insertion sort: x goes behind every row not later than it
RECURSIVE InsertByTime(_, _)
InsertByTime(sorted, x) ==
    IF sorted = <<>> THEN <<x>>
    ELSE IF Head(sorted).time <= x.time
         THEN <<Head(sorted)>> \o InsertByTime(Tail(sorted), x)
         ELSE <<x>> \o sorted

\* final_df.sort_values('time').reset_index(drop=True)
RECURSIVE SortValuesTime(_)
SortValuesTime(rows) ==
    IF rows = <<>> THEN <<>>
    ELSE InsertByTime(SortValuesTime(SubSeq(rows, 1, Len(rows) - 1)),
                      rows[Len(rows)])

\* the table collect_historical_ticks hands to _save_to_parquet
FinalFrame(frames) ==
    SortValuesTime(DropDuplicates(Concat(frames)))

HistSymbol == Symbols[hsym]
ChunkEnd == Min(current_date + ChunkHours, DateTo)
ChunksRequested == {requests[i][1] : i \in 1..Len(requests)}

\* collect_all_symbols: initialize_mt5 succeeds (or the connection is still up)
CollectAllSymbols ==
    /\ hpc \in {"idle", "returned", "raised"}
    /\ runs < MaxRuns
    /\ runs' = runs + 1
    /\ hist_mt5_initialized' = TRUE
    /\ results' = <<>>
    /\ hsym' = 1
    /\ hpc' = "symbol"
    /\ UNCHANGED <<collectorVars, extraVars, featVars, provider_ticks, current_date, attempt, all_ticks,
                   tick_success, files, requests, exhausted>>

\* collect_all_symbols: initialize_mt5 fails and {} is returned
CollectAllSymbolsNoProvider ==
    /\ hpc \in {"idle", "returned", "raised"}
    /\ runs < MaxRuns
    /\ ~hist_mt5_initialized
    /\ runs' = runs + 1
    /\ results' = <<>>
    /\ hpc' = "returned"
    /\ UNCHANGED <<collectorVars, extraVars, featVars, provider_ticks, hist_mt5_initialized, hsym,
                   current_date, attempt, all_ticks, tick_success, files, requests,
                   exhausted>>

\* the loop over self.symbols is over: mt5.shutdown() and return results
ReturnResults ==
    /\ hpc = "symbol"
    /\ hsym > NSym
    /\ hist_mt5_initialized' = FALSE
    /\ hpc' = "returned"
    /\ UNCHANGED <<collectorVars, extraVars, featVars, provider_ticks, hsym, current_date, attempt,
                   all_ticks, tick_success, results, files, requests, exhausted,
                   runs>>

\* get_symbol_info returns None: the symbol is marked failed and skipped
SymbolNotFound ==
    /\ hpc = "symbol"
    /\ hsym <= NSym
    /\ results' = (HistSymbol :> [status |-> "failed", error |-> "Symbol not found"])
                      @@ results
    /\ hsym' = hsym + 1
    /\ UNCHANGED <<collectorVars, extraVars, featVars, provider_ticks, hist_mt5_initialized, hpc,
                   current_date, attempt, all_ticks, tick_success, files, requests,
                   exhausted, runs>>

\* the symbol exists: collect_historical_ticks is entered
StartTickCollection ==
    /\ hpc = "symbol"
    /\ hsym <= NSym
    /\ all_ticks' = <<>>
    /\ current_date' = DateFrom
    /\ attempt' = 0
    /\ requests' = <<>>
    /\ exhausted' = {}
    /\ hpc' = "chunk"
    /\ UNCHANGED <<collectorVars, extraVars, featVars, provider_ticks, hist_mt5_initialized, hsym,
                   tick_success, results, files, runs>>

\* "except Exception": the third failure ends collect_historical_ticks with
\* False, an earlier one leads to the next attempt on the same chunk
AttemptFails ==
    IF attempt = LastAttempt
    THEN /\ tick_success' = FALSE
         /\ hpc' = "ohlc"
         /\ exhausted' = exhausted \cup {current_date}
         /\ UNCHANGED <<attempt, current_date>>
    ELSE /\ attempt' = attempt + 1
         /\ UNCHANGED <<tick_success, hpc, exhausted, current_date>>

\* copy_ticks_range raises
FetchRaises ==
    /\ hpc = "chunk"
    /\ current_date < DateTo
    /\ requests' = Append(requests, <<current_date, ChunkEnd>>)
    /\ AttemptFails
    /\ UNCHANGED <<collectorVars, extraVars, featVars, provider_ticks, hist_mt5_initialized, hsym,
                   all_ticks, results, files, runs>>

\* copy_ticks_range returns None: the chunk is given up without another attempt
FetchNone ==
    /\ hpc = "chunk"
    /\ current_date < DateTo
    /\ requests' = Append(requests, <<current_date, ChunkEnd>>)
    /\ current_date' = ChunkEnd
    /\ attempt' = 0
    /\ UNCHANGED <<collectorVars, extraVars, featVars, provider_ticks, hist_mt5_initialized, hpc, hsym,
                   all_ticks, tick_success, results, files, exhausted, runs>>

\* copy_ticks_range returns an array.  On an empty array
\* _calculate_tick_direction raises IndexError (direction.iloc[0] = 0), which
\* the handler treats as a failed attempt.
FetchTicks ==
    /\ hpc = "chunk"
    /\ current_date < DateTo
    /\ requests' = Append(requests, <<current_date, ChunkEnd>>)
    /\ LET ticks == CopyTicksRange(current_date, ChunkEnd)
       IN IF ticks = <<>>
          THEN AttemptFails /\ UNCHANGED all_ticks
          ELSE /\ all_ticks' = Append(all_ticks, ChunkFrame(ticks, HistSymbol))
               /\ current_date' = ChunkEnd
               /\ attempt' = 0
               /\ UNCHANGED <<tick_success, hpc, exhausted>>
    /\ UNCHANGED <<collectorVars, extraVars, featVars, provider_ticks, hist_mt5_initialized, hsym,
                   results, files, runs>>

\* the chunk loop is over with no frame collected: return False
NoTicksCollected ==
    /\ hpc = "chunk"
    /\ current_date >= DateTo
    /\ all_ticks = <<>>
    /\ tick_success' = FALSE
    /\ hpc' = "ohlc"
    /\ UNCHANGED <<collectorVars, extraVars, featVars, provider_ticks, hist_mt5_initialized, hsym,
                   current_date, attempt, all_ticks, results, files, requests,
                   exhausted, runs>>

\* the chunk loop is over: concat, drop_duplicates, sort_values, and
\* _save_to_parquet writes the table; return True
ConsolidateAndSave ==
    /\ hpc = "chunk"
    /\ current_date >= DateTo
    /\ all_ticks # <<>>
    /\ files' = [files EXCEPT ![HistSymbol] =
          [exists |-> TRUE, rows |-> FinalFrame(all_ticks),
           complete |-> Len(all_ticks) = Cardinality(ChunksRequested),
           run |-> runs,
           replaced_complete |-> @.exists /\ @.complete]]
    /\ tick_success' = TRUE
    /\ hpc' = "ohlc"
    /\ UNCHANGED <<collectorVars, extraVars, featVars, provider_ticks, hist_mt5_initialized, hsym,
                   current_date, attempt, all_ticks, results, requests, exhausted,
                   runs>>

\* the chunk loop is over and _save_to_parquet raises: the call is in no try
\* block, so the exception leaves collect_historical_ticks and
\* collect_all_symbols
ConsolidateSaveRaises ==
    /\ hpc = "chunk"
    /\ current_date >= DateTo
    /\ all_ticks # <<>>
    /\ hpc' = "raised"
    /\ UNCHANGED <<collectorVars, extraVars, featVars, provider_ticks, hist_mt5_initialized, hsym,
                   current_date, attempt, all_ticks, tick_success, results, files,
                   requests, exhausted, runs>>

\* collect_historical_ohlc returns True (the bars were fetched and written) or
\* False (rates is None, the frame is empty, or three attempts raised); then
\* the symbol's status entry is set
CollectOhlc ==
    /\ hpc = "ohlc"
    /\ \E ohlc_success \in BOOLEAN :
          results' = (HistSymbol :>
                        IF tick_success /\ ohlc_success
                        THEN [status |-> "success"]
                        ELSE [status |-> "partial", ticks |-> tick_success,
                              ohlc |-> ohlc_success]) @@ results
    /\ hsym' = hsym + 1
    /\ hpc' = "symbol"
    /\ UNCHANGED <<collectorVars, extraVars, featVars, provider_ticks, hist_mt5_initialized,
                   current_date, attempt, all_ticks, tick_success, files, requests,
                   exhausted, runs>>

\* the provider holds any of the fixtures
InitHistorical ==
    /\ InitCollector
    /\ \E f \in Fixtures : InitHistoricalWith(TicksFrom(f, DateFrom + 1))
    /\ tick_data = [columns |-> {}, rows |-> <<>>]
    /\ fpc = "ready" /\ warned = FALSE /\ df = <<>> /\ flow = <<>>
    /\ price_action = <<>> /\ calls = <<>>
    /\ InitExtra

NextHistorical ==
    \/ CollectAllSymbols
    \/ CollectAllSymbolsNoProvider
    \/ ReturnResults
    \/ SymbolNotFound
    \/ StartTickCollection
    \/ FetchRaises
    \/ FetchNone
    \/ FetchTicks
    \/ NoTicksCollected
    \/ ConsolidateAndSave
    \/ ConsolidateSaveRaises
    \/ CollectOhlc

SpecHistorical == InitHistorical /\ [][NextHistorical]_vars

\* ------------------------------------------------- history of one symbol
ProcessedOf(s) == SelectSeq(processed, LAMBDA t : t.symbol = s)

\* the symbol's ticks were processed in non-decreasing minute order
MinutesOrdered(s) ==
    LET p == ProcessedOf(s)
    IN \A i \in 1..Len(p) : \A j \in i..Len(p) :
          MinuteOf(p[i].time) <= MinuteOf(p[j].time)

\* number of bars the tick sequence opens: one per maximal run of equal minutes
BarsOpened(s) ==
    LET p == ProcessedOf(s)
    IN Cardinality({i \in 1..Len(p) :
          i = 1 \/ MinuteOf(p[i].time) # MinuteOf(p[i - 1].time)})

BarTimesIncreasing(s) ==
    LET bars == ohlc_buffers[s].completed_bars
    IN \A i \in 1..Len(bars) : \A j \in (i + 1)..Len(bars) :
          bars[i].time < bars[j].time

\* the ticks of the symbol whose time falls in the given minute
TicksOfMinute(s, m) ==
    LET p == ProcessedOf(s)
    IN {i \in 1..Len(p) : MinuteOf(p[i].time) = m}

BarMatchesItsMinute(s, bar) ==
    LET p == ProcessedOf(s)
    IN /\ bar.tick_count = Cardinality(TicksOfMinute(s, bar.time))
       /\ \A i \in TicksOfMinute(s, bar.time) :
             bar.low <= p[i].mid_price /\ p[i].mid_price <= bar.high

\* the last n entries of a sequence
LastN(q, n) == SubSeq(q, Len(q) - n + 1, Len(q))

\* --------------------------------------------------------------- claims

\* C1 (as amended): for a symbol whose ticks are processed in non-decreasing
\* minute order, the bars opened and not yet sealed number at most one (exactly
\* one once a tick was processed), and the times of the bars appended to
\* completed_bars are strictly increasing and all earlier than the open bar.
C1_BarsIncreasingWhenOrdered ==
    \A s \in SymbolSet :
        LET o == ohlc_buffers[s]
            open == BarsOpened(s) - Len(o.completed_bars)
        IN /\ open = (IF o.current_minute # None THEN 1 ELSE 0)
           /\ (o.current_minute # None) = (ProcessedOf(s) # <<>>)
           /\ MinutesOrdered(s) =>
                 /\ BarTimesIncreasing(s)
                 /\ \A i \in 1..Len(o.completed_bars) :
                       o.completed_bars[i].time < o.current_minute

\* C1 witness: ticks in minute order have sealed two bars of one symbol
C1_Witness ==
    \E s \in SymbolSet :
        MinutesOrdered(s) /\ Len(ohlc_buffers[s].completed_bars) >= 2

\* C1 (original): for every tick sequence, in minute order or not, the times of
\* the bars appended to completed_bars are strictly increasing.
C1_Original ==
    \A s \in SymbolSet : BarTimesIncreasing(s)

\* C2 (as amended): for a symbol whose ticks are processed in non-decreasing
\* minute order, every sealed bar has low <= mid_price <= high for each tick of
\* its minute, and tick_count equal to the number of processed ticks of that
\* minute.
C2_SealedBarWhenOrdered ==
    \A s \in SymbolSet :
        MinutesOrdered(s) =>
            \A i \in 1..Len(ohlc_buffers[s].completed_bars) :
                BarMatchesItsMinute(s, ohlc_buffers[s].completed_bars[i])

\* C2 witness: a sealed bar that folded two ticks of different price
C2_Witness ==
    \E s \in SymbolSet :
        /\ MinutesOrdered(s)
        /\ \E i \in 1..Len(ohlc_buffers[s].completed_bars) :
              LET bar == ohlc_buffers[s].completed_bars[i]
              IN bar.tick_count >= 2 /\ bar.low < bar.high

\* C2 (original): every sealed bar's tick_count is the number of processed ticks
\* of the symbol whose time falls in the bar's minute, and each of them lies
\* between low and high.
C2_Original ==
    \A s \in SymbolSet :
        \A i \in 1..Len(ohlc_buffers[s].completed_bars) :
            BarMatchesItsMinute(s, ohlc_buffers[s].completed_bars[i])

\* C10: after k ticks of a symbol were processed, its ring holds exactly the
\* min(k, buffer_size) most recently processed ones, in processing order.
C10_RingHoldsMostRecent ==
    \A s \in SymbolSet :
        LET p == ProcessedOf(s)
            ring == tick_buffers[s]
        IN /\ Len(ring) = Min(Len(p), buffer_size)
           /\ [i \in 1..Len(ring) |-> Stripped(ring[i])] = LastN(p, Len(ring))

\* C10 witness: more ticks than the capacity were processed for one symbol
C10_Witness ==
    \E s \in SymbolSet :
        /\ Len(ProcessedOf(s)) > buffer_size
        /\ Len(tick_buffers[s]) = buffer_size

\* ---------------------------------------------- claims on the running system

AcceptedOf(s) == SelectSeq(accepted, LAMBDA t : t.symbol = s)

\* the tick the worker holds between get() and _process_tick
InHand == IF wtick = NoTick THEN <<>> ELSE <<wtick>>

\* the worker has taken nothing from the queue
NoDrain == processed = <<>> /\ wtick = NoTick

\* this step is the flush of the i-th symbol, by the poll loop or by stop_collection
SaveStepOn(i) ==
    \/ ppc = "save" /\ psym = i /\ (ppc' # ppc \/ psym' # psym)
    \/ spc = "save" /\ ssym = i /\ (spc' # spc \/ ssym' # ssym)

\* C3: while the worker does not drain, of n enqueue attempts exactly
\* min(n, capacity) are accepted, and after a burst of n > capacity attempts
\* stats['collection_errors'] has increased by exactly the number of rejected
\* ticks, n - capacity.
C3_Original ==
    NoDrain =>
        /\ Len(tick_queue) = Min(polls, QueueMaxSize)
        /\ polls > QueueMaxSize =>
              stats.collection_errors = polls - QueueMaxSize

\* C4: once the worker thread has exited, no accepted tick is left unprocessed
\* in tick_queue.
C4_Original ==
    wpc = "exit" => tick_queue = <<>>

\* C5: no flush (by the poll loop or by stop_collection) reads a symbol's ring
\* while the worker is executing _process_tick on that symbol.
C5_Original ==
    \A i \in 1..NSym :
        ~ /\ wpc = "process"
          /\ wtick.symbol = Symbols[i]
          /\ \/ ppc = "save" /\ psym = i
             \/ spc = "save" /\ ssym = i

\* C6: the poll loop never calls mt5.symbol_info_tick after stop_collection has
\* called mt5.shutdown().
C6_Original ==
    ~late_call

\* C7: the ticks processed, the tick in the worker's hand and the ticks still
\* queued are, in this order, exactly the ticks accepted, each once; so for each
\* symbol the processed ticks are a prefix of the accepted ones.
C7_Fifo ==
    /\ processed \o InHand \o tick_queue = accepted
    /\ \A s \in SymbolSet :
          LET p == ProcessedOf(s)
              a == AcceptedOf(s)
          IN Len(p) <= Len(a) /\ p = SubSeq(a, 1, Len(p))
    /\ \A i \in 1..Len(processed) : \A j \in 1..Len(processed) :
          processed[i] = processed[j] => i = j

\* C7 witness: two ticks of one symbol were processed and a third tick waits
C7_Witness ==
    /\ \E s \in SymbolSet : Len(ProcessedOf(s)) >= 2
    /\ Len(accepted) > Len(processed)

\* C8: when the tick save of a symbol's flush completes without an error, the
\* symbol's tick ring is empty afterwards.
C8_Original ==
    [][\A i \in 1..NSym :
          (SaveStepOn(i) /\ tick_save_result' = "returned")
              => tick_buffers'[Symbols[i]] = <<>>]_vars

\* C9: a failing flush of the i-th symbol logs one error for it, leaves the
\* symbol's tick ring as it was, and the flush goes on with the next symbol
\* (after the last symbol, the caller goes on).
C9_FailedFlushKeepsRing ==
    [][\A i \in 1..NSym :
          SaveStepOn(i) =>
              /\ save_errors'[Symbols[i]] = save_errors[Symbols[i]] + 1
              /\ tick_buffers'[Symbols[i]] = tick_buffers[Symbols[i]]
              /\ (ppc = "save" /\ psym = i /\ (ppc' # ppc \/ psym' # psym)) =>
                    IF i < NSym THEN ppc' = "save" /\ psym' = i + 1
                    ELSE ppc' = "check"
              /\ (spc = "save" /\ ssym = i /\ (spc' # spc \/ ssym' # ssym)) =>
                    IF i < NSym THEN spc' = "save" /\ ssym' = i + 1
                    ELSE spc' = "shutdown"]_vars

\* C9 witness: the flush of a non-empty ring failed, the ring still holds its
\* ticks, and the flush went on to fail for the other symbol too
C9_Witness ==
    /\ tick_save_result \in {"returned", "raised"}
    /\ \A s \in SymbolSet : save_errors[s] >= 1
    /\ \E s \in SymbolSet : tick_buffers[s] # <<>>

\* ------------------------------------------------ claims on tick direction


\* C11: the first tick processed for a symbol has direction 0 and every later
\* one has direction sign(last - last of the tick processed before it for the
\* same symbol) (every tick here carries a last-trade price).
C11_Original ==
    \A s \in SymbolSet :
        LET p == ProcessedOf(s)
            ring == tick_buffers[s]
            off == Len(p) - Len(ring)
        IN \A i \in 1..Len(ring) :
              ring[i].direction =
                  IF off + i = 1 THEN 0
                  ELSE Sign(p[off + i].last - p[off + i - 1].last)

\* ------------------------------------------- claims on the OHLC state machine

\* the tick handed to _process_tick in this step
StepTick == processed'[Len(processed')]

\* C12: per symbol, the first tick opens a bar for its minute and seals nothing;
\* a tick of the open bar's minute mutates the bar in place and seals nothing; a
\* tick of another minute appends exactly the open bar to completed_bars, adds
\* one to ohlc_bars and opens a bar whose open, high, low and close are the
\* tick's mid-price with tick_count 1; the open bar's minute is always the
\* minute of the latest tick's timestamp.
C12_OhlcStateMachine ==
    [][processed' # processed =>
        LET t == StepTick
            s == t.symbol
            o == ohlc_buffers[s]
            n == ohlc_buffers'[s]
            m == MinuteOf(t.time)
            bars == stats.symbols_stats[s].ohlc_bars
            bars2 == stats'.symbols_stats[s].ohlc_bars
            fresh == /\ n.open = t.mid_price /\ n.high = t.mid_price
                     /\ n.low = t.mid_price /\ n.close = t.mid_price
                     /\ n.tick_count = 1
        IN /\ n.current_minute = m
           /\ \A u \in SymbolSet \ {s} : ohlc_buffers'[u] = ohlc_buffers[u]
           /\ o.current_minute = None =>
                 fresh /\ n.completed_bars = o.completed_bars /\ bars2 = bars
           /\ o.current_minute = m =>
                 /\ n.completed_bars = o.completed_bars /\ bars2 = bars
                 /\ n.open = o.open /\ n.close = t.mid_price
                 /\ n.high = Max(o.high, t.mid_price)
                 /\ n.low = Min(o.low, t.mid_price)
                 /\ n.tick_count = o.tick_count + 1
           /\ (o.current_minute # None /\ o.current_minute # m) =>
                 /\ fresh /\ bars2 = bars + 1
                 /\ Len(n.completed_bars) = Len(o.completed_bars) + 1
                 /\ SubSeq(n.completed_bars, 1, Len(o.completed_bars))
                       = o.completed_bars
                 /\ LET b == n.completed_bars[Len(n.completed_bars)]
                    IN /\ b.time = o.current_minute /\ b.open = o.open
                       /\ b.high = o.high /\ b.low = o.low
                       /\ b.close = o.close /\ b.tick_count = o.tick_count]_vars

\* C12 witness: a symbol has sealed a bar and then folded two ticks into the
\* bar it opened
C12_Witness ==
    \E s \in SymbolSet :
        /\ stats.symbols_stats[s].ohlc_bars >= 1
        /\ Len(ohlc_buffers[s].completed_bars) >= 1
        /\ ohlc_buffers[s].tick_count >= 2

\* ------------------------------------------ claims on the historical collector

\* C13 as stated: when the three attempts of one chunk have all failed, the
\* chunks after it are still requested (a request reaches date_to) and the
\* frames already collected are written to the symbol's file by this run.
C13_Original ==
    hpc = "ohlc" /\ exhausted # {} =>
        /\ \E i \in 1..Len(requests) : requests[i][2] = DateTo
        /\ all_ticks # <<>> =>
               files[HistSymbol].exists /\ files[HistSymbol].run = runs

NoDuplicateKeys(rows) ==
    \A i, j \in 1..Len(rows) : i # j => ~SameKey(rows[i], rows[j])

SortedByTime(rows) ==
    \A i \in 1..(Len(rows) - 1) : rows[i].time <= rows[i + 1].time

\* C14: every tick table written has no two rows with the same
\* (time, bid, ask) and is sorted by non-decreasing time; and when a run in
\* which the provider returned the ticks of every chunk rewrites the table of
\* an earlier such run, the table written is identical to the one replaced.
C14_TableDedupedSortedIdempotent ==
    [][\A s \in SymbolSet :
          files'[s] # files[s] =>
             /\ NoDuplicateKeys(files'[s].rows)
             /\ SortedByTime(files'[s].rows)
             /\ (files[s].exists /\ files[s].complete /\ files'[s].complete
                    => files'[s].rows = files[s].rows)]_vars

\* a complete table was rewritten by a later complete run, and a tick returned
\* by two adjacent chunks was dropped on the way
C14_Witness ==
    /\ hpc = "ohlc" /\ tick_success
    /\ files[HistSymbol].complete /\ files[HistSymbol].replaced_complete
    /\ files[HistSymbol].run = runs
    /\ Len(files[HistSymbol].rows) >= 2
    /\ Len(Concat(all_ticks)) > Len(files[HistSymbol].rows)

\* C15 as stated: in every tick table written, the first row has direction 0
\* and every other row has the sign of its last price minus the last price of
\* the row written immediately before it.
C15_Original ==
    \A s \in SymbolSet :
        files[s].exists =>
            \A i \in 1..Len(files[s].rows) :
                files[s].rows[i].direction =
                    IF i = 1 THEN 0
                    ELSE Sign(files[s].rows[i].last - files[s].rows[i - 1].last)

\* C16 as stated: collect_all_symbols never ends in an exception, and what it
\* returns has one entry per configured symbol, each with one of the three
\* statuses, 'partial' only when the tick or the OHLC collection failed.
C16_Original ==
    /\ hpc # "raised"
    /\ hpc = "returned" =>
          /\ DOMAIN results = SymbolSet
          /\ \A s \in SymbolSet :
                /\ results[s].status \in {"success", "failed", "partial"}
                /\ results[s].status = "partial" =>
                       ~(results[s].ticks /\ results[s].ohlc)

\* -------------------- SpecFeatures: TapeReadingFeatures.extract_features
\* (src/python/feature_engineering/tape_reading_features.py).  A DataFrame is
\* its set of column names and its sequence of rows.

\* the minimum-sample threshold of _validate_tick_data (100 in the source) and
\* min_ticks_per_window (5 in the source), scaled down; the spacing of the
\* ticks of a volume-flow batch, in seconds; the number of calls a caller
\* makes with one batch
MinRows == 3
MinTicksPerWindow == 2
TickSpacing == 5
MaxCalls == 2

\* the first two of self.time_windows
TimeWindows == {10, 30}

RequiredColumns == {"time", "bid", "ask", "symbol"}
OptionalColumns == {"last", "direction", "volume"}

\* column sets of the batches handed in: everything, one required column
\* missing, or the required columns alone
ColumnSets ==
    {RequiredColumns \cup OptionalColumns, RequiredColumns,
     RequiredColumns \cup {"last"}}
        \cup {(RequiredColumns \ {c}) \cup OptionalColumns : c \in RequiredColumns}

BatchTimes == {0, TickSpacing}

InputRow(t, s, l, d, v) ==
    [time |-> t, symbol |-> s, bid |-> PollBid, ask |-> PollBid + ProviderSpread,
     last |-> l, direction |-> d, volume |-> v]

\* sequences of at most n elements of S
SeqUpTo(S, n) == UNION {[1..k -> S] : k \in 0..n}

\* a slip: the row count is not tested
ValidateTickData_NoLengthTest(batch) ==
    RequiredColumns \subseteq batch.columns

\* _validate_tick_data: the value returned
ValidateTickData(batch) ==
    /\ \A col \in RequiredColumns : col \in batch.columns
    /\ ~(Len(batch.rows) < MinRows)

\* tick_data['time'].is_monotonic_increasing
IsMonotonicIncreasing(rows) ==
    \A i \in 1..(Len(rows) - 1) : rows[i].time <= rows[i + 1].time

\* a direction column with the sign of the difference turned round
FrameDirection_Inverted(lasts) ==
    [i \in 1..Len(lasts) |->
        IF i = 1 THEN 0 ELSE Sign(lasts[i - 1] - lasts[i])]

\* TapeReadingFeatures._calculate_tick_direction: df['last'].diff() over the
\* whole frame
FrameDirection(lasts) ==
    [i \in 1..Len(lasts) |->
        IF i = 1 THEN 0 ELSE Sign(lasts[i] - lasts[i - 1])]

\* the derived and defaulted columns _prepare_tick_data adds to a frame
WithDerivedColumns(columns, rows) ==
    LET mid(i) == (rows[i].bid + rows[i].ask) \div 2
        lasts == [i \in 1..Len(rows) |->
                     IF "last" \in columns THEN rows[i].last ELSE mid(i)]
    IN [i \in 1..Len(rows) |->
          [time |-> rows[i].time, symbol |-> rows[i].symbol,
           bid |-> rows[i].bid, ask |-> rows[i].ask,
           mid_price |-> mid(i), spread |-> rows[i].ask - rows[i].bid,
           last |-> lasts[i],
           direction |-> IF "direction" \in columns THEN rows[i].direction
                         ELSE FrameDirection(lasts)[i],
           volume |-> IF "volume" \in columns THEN rows[i].volume ELSE 1]]

\* a slip: the frame is left in the order supplied
PrepareTickData_NoSort(batch) ==
    WithDerivedColumns(batch.columns, batch.rows)

\* _prepare_tick_data(tick_data.copy())
PrepareTickData(batch) ==
    WithDerivedColumns(batch.columns, SortValuesTime(batch.rows))

\* the frame before any call
NoFrame == <<>>

InitFeaturesWith(batch) ==
    /\ tick_data = batch
    /\ fpc = "ready"
    /\ warned = FALSE
    /\ df = NoFrame
    /\ flow = <<>>
    /\ price_action = <<>>
    /\ calls = <<>>
    /\ InitExtra

\* extract_features: _validate_tick_data returns False and ValueError is raised
ExtractFeaturesRejects ==
    /\ fpc = "ready"
    /\ ~ValidateTickData(tick_data)
    /\ fpc' = "ValueError"
    /\ calls' = Append(calls, [batch |-> tick_data, outcome |-> "ValueError"])
    /\ UNCHANGED <<collectorVars, extraVars, histVars, tick_data, warned, df, flow,
                   price_action>>

\* extract_features on a batch that passes validation: a batch out of time
\* order is logged, a copy is prepared, and _extract_velocity_features raises
\* AttributeError at time_grouper.size() (a pandas rolling object has no
\* method size), which nothing catches
ExtractFeatures ==
    /\ fpc = "ready"
    /\ ValidateTickData(tick_data)
    /\ warned' = ~IsMonotonicIncreasing(tick_data.rows)
    /\ df' = PrepareTickData(tick_data)
    /\ fpc' = "AttributeError"
    /\ calls' = Append(calls, [batch |-> tick_data,
                               outcome |-> "AttributeError"])
    /\ UNCHANGED <<collectorVars, extraVars, histVars, tick_data, flow, price_action>>

\* the caller calls extract_features again with the same batch: the locals of
\* the previous call are gone, the extractor keeps nothing between calls
CallAgain ==
    /\ fpc \in {"ValueError", "AttributeError"}
    /\ Len(calls) < MaxCalls
    /\ fpc' = "ready"
    /\ warned' = FALSE
    /\ df' = NoFrame
    /\ UNCHANGED <<collectorVars, extraVars, histVars, tick_data, flow, price_action,
                   calls>>

InitFeatures ==
    /\ InitCollector
    /\ InitHistoricalWith(<<>>)
    /\ \E columns \in ColumnSets :
       \E rows \in SeqUpTo({InputRow(t, s, l, 0, 1) :
                               t \in BatchTimes, s \in SymbolSet, l \in Lasts},
                           MinRows + 1) :
          InitFeaturesWith([columns |-> columns, rows |-> rows])

NextFeatures ==
    \/ ExtractFeaturesRejects
    \/ ExtractFeatures
    \/ CallAgain

SpecFeatures == InitFeatures /\ [][NextFeatures]_vars

\* --------- SpecVolumeFlow: the window values of _extract_volume_flow_features

\* df['buy_volume'], with every tick counted as a buy
BuyVolume_All(row) ==
    row.volume

\* df['buy_volume'] = df['volume'] * (df['direction'] == 1).astype(int)
BuyVolume(row) ==
    row.volume * (IF row.direction = 1 THEN 1 ELSE 0)

\* df['sell_volume'] = df['volume'] * (df['direction'] == -1).astype(int)
SellVolume(row) ==
    row.volume * (IF row.direction = -1 THEN 1 ELSE 0)

\* df.groupby('symbol').rolling(window=f'{window}s', on='time'): the rows of
\* the window that ends at row i
WindowOf(frame, i, window) ==
    {j \in 1..i : /\ frame[j].symbol = frame[i].symbol
                  /\ frame[j].time > frame[i].time - window}

RECURSIVE SumOver(_, _)
SumOver(S, f) ==
    IF S = {} THEN 0
    ELSE LET j == CHOOSE k \in S : TRUE IN f[j] + SumOver(S \ {j}, f)

\* a quotient of two window sums; NaN when the window holds fewer than
\* min_periods ticks; total_volume.replace(0, 1) in the denominator
NaN == [nan |-> TRUE, num |-> 0, den |-> 1]
Quotient(n, total) ==
    [nan |-> FALSE, num |-> n, den |-> IF total = 0 THEN 1 ELSE total]

\* the values line 395-403 compute for the window ending at row i
VolumeFlowAt(frame, i, window) ==
    LET w == WindowOf(frame, i, window)
        total_volume == SumOver(w, [j \in w |-> frame[j].volume])
        buy_volume == SumOver(w, [j \in w |-> BuyVolume(frame[j])])
        sell_volume == SumOver(w, [j \in w |-> SellVolume(frame[j])])
        warm == Cardinality(w) >= MinTicksPerWindow
    IN [window |-> window,
        ticks |-> w,
        total_volume |-> IF warm THEN total_volume ELSE None,
        buy_pressure |-> IF warm THEN Quotient(buy_volume, total_volume) ELSE NaN,
        sell_pressure |-> IF warm THEN Quotient(sell_volume, total_volume) ELSE NaN,
        volume_imbalance |->
            IF warm THEN Quotient(buy_volume - sell_volume, total_volume) ELSE NaN]

\* _prepare_tick_data, then the window values of _extract_volume_flow_features
\* for one of the time windows
ExtractVolumeFlow ==
    /\ fpc = "ready"
    /\ \E window \in TimeWindows :
          LET frame == PrepareTickData(tick_data)
          IN /\ df' = frame
             /\ flow' = [i \in 1..Len(frame) |-> VolumeFlowAt(frame, i, window)]
    /\ fpc' = "flow"
    /\ UNCHANGED <<collectorVars, extraVars, histVars, tick_data, warned, price_action,
                   calls>>

\* batches of MinRows + 1 ticks at a fixed spacing, each with a symbol, a
\* direction and a volume
InitVolumeFlow ==
    /\ InitCollector
    /\ InitHistoricalWith(<<>>)
    /\ \E choice \in [1..(MinRows + 1) -> SymbolSet \X {-1, 0, 1} \X {0, 1}] :
          InitFeaturesWith(
             [columns |-> RequiredColumns \cup OptionalColumns,
              rows |-> [i \in 1..(MinRows + 1) |->
                          InputRow(TickSpacing * i, choice[i][1], PollBid + 1,
                                   choice[i][2], choice[i][3])]])

NextVolumeFlow == ExtractVolumeFlow

SpecVolumeFlow == InitVolumeFlow /\ [][NextVolumeFlow]_vars

\* ------------------------------------------ claims on the feature extractor

\* C17: extract_features raises the validation error (ValueError) exactly
\* when the batch lacks one of the columns time, bid, ask, symbol or has fewer
\* rows than the minimum-sample threshold.
C17_RejectsExactlyInvalid ==
    fpc # "ready" =>
        (fpc = "ValueError" <=>
            \/ \E c \in {"time", "bid", "ask", "symbol"} : c \notin tick_data.columns
            \/ Len(tick_data.rows) < MinRows)

\* a batch with every column and one row too few was rejected
C17_Witness ==
    /\ fpc = "ValueError"
    /\ RequiredColumns \subseteq tick_data.columns
    /\ Len(tick_data.rows) = MinRows - 1

\* C18 as stated: for every batch that passes validation extract_features
\* returns a table (with one row per input row and no null or infinite cell).
C18_Original ==
    fpc # "ready" /\ ValidateTickData(tick_data) => fpc = "returned"

\* C19 as stated: the rows of a batch that is out of time order are processed
\* in the order supplied.
C19_Original ==
    fpc = "AttributeError" /\ ~IsMonotonicIncreasing(tick_data.rows) =>
        \A i \in 1..Len(df) : df[i].time = tick_data.rows[i].time

\* the same rows, each as often
SameRows(a, b) ==
    /\ Len(a) = Len(b)
    /\ \A x \in {a[i] : i \in 1..Len(a)} :
          Cardinality({i \in 1..Len(a) : a[i] = x}) =
          Cardinality({i \in 1..Len(b) : b[i] = x})

\* C19, amended: a batch that is out of time order is logged, and the frame
\* the features are computed from holds the rows of the batch in non-decreasing
\* time order; the batch handed in is left as it was.
C19_LoggedAndSorted ==
    [][fpc = "ready" /\ fpc' = "AttributeError"
         /\ ~IsMonotonicIncreasing(tick_data.rows) =>
            /\ warned'
            /\ \A i \in 1..(Len(df') - 1) : df'[i].time <= df'[i + 1].time
            /\ SameRows([i \in 1..Len(df') |-> <<df'[i].time, df'[i].symbol>>],
                        [i \in 1..Len(tick_data.rows) |->
                            <<tick_data.rows[i].time, tick_data.rows[i].symbol>>])
            /\ tick_data' = tick_data]_vars

\* a batch out of time order was prepared
C19_Witness ==
    /\ fpc = "AttributeError"
    /\ warned
    /\ \E i \in 1..(Len(tick_data.rows) - 1) :
          tick_data.rows[i].time > tick_data.rows[i + 1].time

Number(n) == [nan |-> FALSE, num |-> n, den |-> 1]

\* calc_trend_consistency: the share of the larger of the up and the down
\* ticks among the non-neutral ticks of the window, 0 when it has none
TrendConsistency(frame, w) ==
    LET up == Cardinality({j \in w : frame[j].direction > 0})
        down == Cardinality({j \in w : frame[j].direction < 0})
        total_nonzero == up + down
    IN IF total_nonzero = 0 THEN Number(0)
       ELSE Quotient(Max(up, down), total_nonzero)

\* the values lines 308-322 compute for the window ending at row i: the sum of
\* the directions and the trend consistency, NaN when the window holds fewer
\* than min_periods ticks
PriceActionAt(frame, i, window) ==
    LET w == WindowOf(frame, i, window)
        warm == Cardinality(w) >= MinTicksPerWindow
    IN [window |-> window,
        ticks |-> w,
        momentum |->
            IF warm THEN Number(SumOver(w, [j \in w |-> frame[j].direction]))
            ELSE NaN,
        trend_consistency |-> IF warm THEN TrendConsistency(frame, w) ELSE NaN]

\* _prepare_tick_data, then the window values of
\* _extract_price_action_features for one window length
ExtractPriceAction ==
    /\ fpc = "ready"
    /\ \E window \in TimeWindows :
          LET frame == PrepareTickData(tick_data)
          IN /\ df' = frame
             /\ price_action' =
                   [i \in 1..Len(frame) |-> PriceActionAt(frame, i, window)]
    /\ fpc' = "price_action"
    /\ UNCHANGED <<collectorVars, extraVars, histVars, tick_data, warned, flow, calls>>

\* the prices a rising batch goes through: each tick above the one before
RisingLasts(first, steps) ==
    [i \in 1..(Len(steps) + 1) |->
        first + SumOver(1..(i - 1), [j \in 1..(i - 1) |-> steps[j]])]

\* batches of MinRows + 2 ticks of one symbol at a fixed spacing, the price
\* strictly increasing, without a direction column
InitPriceAction ==
    /\ InitCollector
    /\ InitHistoricalWith(<<>>)
    /\ \E s \in SymbolSet, spacing \in {TickSpacing, 2 * TickSpacing},
          steps \in [1..(MinRows + 1) -> {1, 2}] :
          InitFeaturesWith(
             [columns |-> RequiredColumns \cup {"last"},
              rows |-> [i \in 1..(MinRows + 2) |->
                          InputRow(spacing * i, s,
                                   RisingLasts(PollBid, steps)[i], 0, 1)]])

NextPriceAction == ExtractPriceAction

SpecPriceAction == InitPriceAction /\ [][NextPriceAction]_vars

PrecedingOfSymbol(frame, i) ==
    LET before == {j \in 1..(i - 1) : frame[j].symbol = frame[i].symbol}
    IN IF before = {} THEN 0 ELSE CHOOSE j \in before : \A k \in before : k <= j

\* C26 as stated: when the extractor computes the direction itself, the
\* direction of each tick compares its price with the preceding tick of the
\* same symbol, and the first tick of each symbol has direction 0
C26_Original ==
    fpc = "AttributeError" /\ "direction" \notin tick_data.columns
       => \A i \in 1..Len(df) :
             LET p == PrecedingOfSymbol(df, i)
             IN df[i].direction =
                   IF p = 0 THEN 0 ELSE Sign(df[i].last - df[p].last)

\* C22 as stated: a call of extract_features with a valid batch returns a
\* feature table, two calls with identical batches return identical tables
\* whatever was called before, and the batch of the caller is left as it was
C22_Original ==
    \A i \in 1..Len(calls) : \A j \in 1..Len(calls) :
        /\ calls[i].batch = tick_data
        /\ calls[i].batch = calls[j].batch
              => calls[i].outcome = calls[j].outcome
        /\ ValidateTickData(calls[i].batch) => calls[i].outcome = "returned"

\* C28 as stated: when the chunk loop of collect_historical_ticks has ended,
\* the chunks it requested start at date_from, each starts where the one
\* before ended (or repeats it, on a new attempt), none is longer than
\* chunk_hours, and the last ends at date_to
C28_Original ==
    hpc = "ohlc" =>
        /\ requests # <<>>
        /\ requests[1][1] = DateFrom
        /\ \A i \in 1..(Len(requests) - 1) :
              \/ requests[i + 1] = requests[i]
              \/ requests[i + 1][1] = requests[i][2]
        /\ \A i \in 1..Len(requests) :
              /\ requests[i][1] < requests[i][2]
              /\ requests[i][2] - requests[i][1] <= ChunkHours
        /\ requests[Len(requests)][2] = DateTo

\* --------- SpecRestart: RealTimeDataCollector over several start_collection
\* and stop_collection calls, each _processing_worker thread on its own

AliveWorkers == {w \in 1..MaxStarts : workers[w].pc \notin {"unstarted", "exit"}}

\* the workers that are inside _process_tick
InProcessTick == {w \in 1..MaxStarts : workers[w].pc = "store"}

\* start_collection: the flags are set, a new thread is created and started
\* and becomes self.processing_thread, the caller enters _collection_loop;
\* called when no collection runs and no stop_collection is under way
StartCollectionThread ==
    /\ ppc \in {"idle", "returned"}
    /\ spc = "idle"
    /\ ~is_collecting
    /\ \E w \in 1..MaxStarts :
          /\ workers[w].pc = "unstarted"
          /\ \A v \in 1..(w - 1) : workers[v].pc # "unstarted"
          /\ workers' = [workers EXCEPT ![w].pc = "loop"]
          /\ processing_thread' = w
    /\ mt5_initialized' = TRUE
    /\ is_collecting' = TRUE
    /\ stop_event' = FALSE
    /\ ppc' = "check"
    /\ UNCHANGED <<histVars, featVars, configVars, bufferVars, stats, tick_queue, psym,
                   tick_count_for_stats, workerVars, stopVars, polls, saves,
                   accepted, rejected, processed, save_errors,
                   tick_save_result, late_call>>

\* _collection_loop: a tick of some symbol is collected and
\* tick_queue.put(tick, block=False) accepts it
CollectionLoopPut ==
    /\ ppc = "check"
    /\ is_collecting /\ ~stop_event
    /\ polls < MaxRestartTicks
    /\ Len(tick_queue) < QueueMaxSize
    /\ \E s \in SymbolSet :
          LET tick == TickData(s, Quote(PollSpacing * (polls + 1), PollBid,
                                        PollBid, polls + 1))
          IN /\ tick_queue' = Append(tick_queue, tick)
             /\ accepted' = Append(accepted, tick)
    /\ polls' = polls + 1
    /\ tick_count_for_stats' = tick_count_for_stats + 1
    /\ UNCHANGED <<batchVars, bufferVars, stats, is_collecting, stop_event,
                   mt5_initialized, ppc, psym, workerVars, stopVars, saves,
                   rejected, processed, save_errors, tick_save_result,
                   late_call>>

\* _collection_loop: the while condition fails, asyncio.run returns and
\* start_collection returns
CollectionLoopEnds ==
    /\ ppc = "check"
    /\ ~(is_collecting /\ ~stop_event)
    /\ ppc' = "returned"
    /\ UNCHANGED <<batchVars, bufferVars, stats, tick_queue, is_collecting,
                   stop_event, mt5_initialized, psym, tick_count_for_stats,
                   workerVars, stopVars, polls, saves, accepted, rejected,
                   processed, save_errors, tick_save_result, late_call>>

\* stop_collection has returned; its caller may call it again
StopReturns ==
    /\ spc = "done"
    /\ spc' = "idle"
    /\ UNCHANGED <<batchVars, bufferVars, stats, tick_queue, is_collecting,
                   stop_event, mt5_initialized, pollVars, workerVars, ssym,
                   polls, saves, accepted, rejected, processed, save_errors,
                   tick_save_result, late_call>>

\* what a thread step leaves alone
ThreadStepKeeps ==
    UNCHANGED <<histVars, featVars, configVars, processing_thread, is_collecting,
                stop_event, mt5_initialized, pollVars, workerVars, stopVars,
                polls, saves, accepted, rejected, save_errors,
                tick_save_result, late_call>>

\* _processing_worker of thread w: the while condition
ThreadCheck(w) ==
    /\ workers[w].pc = "loop"
    /\ workers' = [workers EXCEPT ![w].pc =
          IF is_collecting \/ tick_queue # <<>> THEN "get" ELSE "exit"]
    /\ UNCHANGED <<bufferVars, stats, tick_queue, processed>>
    /\ ThreadStepKeeps

\* tick_queue.get(timeout=1) of thread w returns the oldest tick and
\* _process_tick is called with it
ThreadGet(w) ==
    /\ workers[w].pc = "get"
    /\ tick_queue # <<>>
    /\ workers' = [workers EXCEPT ![w].pc = "process",
                                  ![w].tick = Head(tick_queue)]
    /\ tick_queue' = Tail(tick_queue)
    /\ processed' = Append(processed, Head(tick_queue))
    /\ UNCHANGED <<bufferVars, stats>>
    /\ ThreadStepKeeps

\* tick_queue.get(timeout=1) of thread w raises queue.Empty: continue
ThreadTimeout(w) ==
    /\ workers[w].pc = "get"
    /\ tick_queue = <<>>
    /\ workers' = [workers EXCEPT ![w].pc = "loop"]
    /\ UNCHANGED <<bufferVars, stats, tick_queue, processed>>
    /\ ThreadStepKeeps

\* _process_tick of thread w up to the read of self.stats['total_ticks'] in
\* "self.stats['total_ticks'] += 1", which is a read, an addition and a write
\* with no lock held
ThreadReadTotal(w) ==
    /\ workers[w].pc = "process"
    /\ workers' = [workers EXCEPT ![w].pc = "store",
                                  ![w].total = stats.total_ticks]
    /\ UNCHANGED <<bufferVars, stats, tick_queue, processed>>
    /\ ThreadStepKeeps

\* the rest of _process_tick of thread w: the write of total_ticks, the
\* statistics of the symbol, OHLC, direction, and with them the ring append
\* of line 309; task_done
ThreadStoreTotal(w) ==
    /\ workers[w].pc = "store"
    /\ LET tick == workers[w].tick
           s == tick.symbol
           ring == DequeAppend(tick_buffers[s], tick, buffer_size)
           d == CalculateTickDirection(ring, tick)
           n == stats.symbols_stats[s].total_ticks + 1
           ss == stats.symbols_stats[s]
       IN /\ tick_buffers' = [tick_buffers EXCEPT
                 ![s] = [ring EXCEPT ![Len(ring)] = WithDirection(tick, d)]]
          /\ ohlc_buffers' = [ohlc_buffers EXCEPT
                 ![s] = UpdateOhlcBuffer(@, tick)]
          /\ stats' = [stats EXCEPT
                 !.total_ticks = workers[w].total + 1,
                 !.symbols_stats[s] =
                     [total_ticks |-> n,
                      last_tick_time |-> tick.time,
                      avg_spread |->
                          (ss.avg_spread * (n - 1) + tick.spread) \div n,
                      ohlc_bars |-> ss.ohlc_bars +
                          IF SealsBar(ohlc_buffers[s], tick) THEN 1 ELSE 0]]
    /\ workers' = [workers EXCEPT ![w].pc = "loop", ![w].tick = NoTick]
    /\ UNCHANGED <<tick_queue, processed>>
    /\ ThreadStepKeeps

NextRestart ==
    \/ StartCollectionThread
    \/ CollectionLoopPut
    \/ CollectionLoopEnds
    \/ StopCollection
    \/ StopJoin
    \/ StopSaveSymbol
    \/ StopShutdown
    \/ StopReturns
    \/ \E w \in 1..MaxStarts : ThreadCheck(w)
    \/ \E w \in 1..MaxStarts : ThreadGet(w)
    \/ \E w \in 1..MaxStarts : ThreadTimeout(w)
    \/ \E w \in 1..MaxStarts : ThreadReadTotal(w)
    \/ \E w \in 1..MaxStarts : ThreadStoreTotal(w)

SpecRestart == Init /\ [][NextRestart]_vars

\* the sum of symbols_stats[symbol]['total_ticks'] over the symbols
SymbolTotals ==
    SumOver(SymbolSet, [s \in SymbolSet |-> stats.symbols_stats[s].total_ticks])

\* C29 as stated: whenever no worker is inside _process_tick, total_ticks is
\* the sum of the symbols' total_ticks and the number of ticks passed to
\* _process_tick, and it is at most the number of ticks the queue accepted
C29_Original ==
    InProcessTick = {} /\ (\A w \in 1..MaxStarts : workers[w].pc # "process")
       => /\ stats.total_ticks = SymbolTotals
          /\ stats.total_ticks = Len(processed)
          /\ stats.total_ticks <= Len(accepted)

\* C30 as stated: at most one processing worker thread is alive at any time,
\* and once stop_collection has returned no worker is inside _process_tick
C30_Original ==
    /\ Cardinality(AliveWorkers) <= 1
    /\ spc = "done" => InProcessTick = {}

\* --------- SpecConfig: ConfigManager (src/python/utils/config_manager.py).
\* A document maps section names to fields; of each section the fields that
\* a rule or a lookup reads are kept.  max_risk_per_trade and max_daily_loss
\* are in thousandths; ensemble_weights is the decimal sum of the weights in
\* hundredths; symbols is the number of symbols.

\* 0.1 and 0.2 of validate_config, in thousandths; 1.0 and 0.01, in hundredths
MaxRiskLimit == 100
MaxDailyLossLimit == 200
WeightsTarget == 100
WeightsTolerance == 1

\* a default document that lacks the paths section
GetDefaultConfig_NoPaths ==
    [trading |-> [symbols |-> 2, magic_number |-> 778899],
     risk |-> [max_risk_per_trade |-> 10, max_daily_loss |-> 30],
     data |-> [historical_months |-> 6],
     ml |-> [ensemble_weights |-> 100],
     communication |-> [method |-> "named_pipes"],
     logging |-> [level |-> "INFO", files |-> 4]]

\* get_default_config
GetDefaultConfig ==
    [trading |-> [symbols |-> 2, magic_number |-> 778899],
     risk |-> [max_risk_per_trade |-> 10, max_daily_loss |-> 30],
     data |-> [historical_months |-> 6],
     ml |-> [ensemble_weights |-> 100],
     communication |-> [method |-> "named_pipes"],
     logging |-> [level |-> "INFO", files |-> 4],
     paths |-> [data_root |-> "data", logs_path |-> "logs"]]

\* the sections the dataclasses are built from, in the order of __init__, and
\* the fields each dataclass declares
TypedSections ==
    <<"trading", "risk", "data", "ml", "communication", "logging">>
DataclassFields ==
    [trading |-> {"symbols", "magic_number"},
     risk |-> {"max_risk_per_trade", "max_daily_loss"},
     data |-> {"historical_months"},
     ml |-> {"ensemble_weights"},
     communication |-> {"method"},
     logging |-> {"level", "files"}]
PathFields == {"data_root", "logs_path"}

\* load_config: the parsed document, or the default document when open raises
\* FileNotFoundError or safe_load raises YAMLError
LoadConfig(file) ==
    IF file.kind \in {"missing", "yaml_error"} THEN GetDefaultConfig
    ELSE file.doc

\* the first exception of __init__ on a loaded document, "ready" when there is
\* none: setup_logging indexes ['logging']['level'] and ['files'], each
\* dataclass is built with **self.config[section], setup_paths indexes
\* ['paths'][...]
RECURSIVE DataclassOutcome(_, _)
DataclassOutcome(doc, i) ==
    IF i > Len(TypedSections) THEN "ready"
    ELSE LET section == TypedSections[i]
         IN IF section \notin DOMAIN doc THEN "KeyError"
            ELSE IF DOMAIN doc[section] # DataclassFields[section]
                 THEN "TypeError"
                 ELSE DataclassOutcome(doc, i + 1)

InitOutcome(doc) ==
    IF "logging" \notin DOMAIN doc THEN "KeyError"
    ELSE IF ~({"level", "files"} \subseteq DOMAIN doc["logging"]) THEN "KeyError"
    ELSE IF DataclassOutcome(doc, 1) # "ready" THEN DataclassOutcome(doc, 1)
    ELSE IF "paths" \notin DOMAIN doc THEN "KeyError"
    ELSE IF ~(PathFields \subseteq DOMAIN doc["paths"]) THEN "KeyError"
    ELSE "ready"

\* the typed objects __init__ builds
TypedObjects(doc) ==
    [i \in 1..Len(TypedSections) |-> doc[TypedSections[i]]]

\* ConfigManager.__init__
ConfigManagerInit(file) ==
    LET doc == LoadConfig(file)
    IN /\ config' = doc
       /\ cpc' = InitOutcome(doc)
       /\ typed' = IF InitOutcome(doc) = "ready" THEN TypedObjects(doc)
                   ELSE NoDocument

Construct ==
    /\ cpc = "new"
    /\ ConfigManagerInit(config_file)
    /\ UNCHANGED <<collectorVars, histVars, featVars, threadVars, config_file,
                   valid, errors, update, lookup>>

\* abs(ensemble_sum - 1.0) > 0.01 in double arithmetic: decided by the decimal
\* sum except on the edge of the tolerance (0.99, 1.01), where the rounding of
\* the double sum decides
SumOutOfTolerance(sum, rounds_out) ==
    LET distance == IF sum >= WeightsTarget THEN sum - WeightsTarget
                    ELSE WeightsTarget - sum
    IN \/ distance > WeightsTolerance
       \/ distance = WeightsTolerance /\ rounds_out

\* validate_config: the errors collected
ValidateConfigErrors(objects, rounds_out) ==
    LET trading == objects[1]
        risk == objects[2]
        ml == objects[4]
    IN {e \in {"symbols", "magic_number", "max_risk_per_trade",
               "max_daily_loss", "ensemble_weights"} :
          \/ e = "symbols" /\ trading.symbols = 0
          \/ e = "magic_number" /\ trading.magic_number <= 0
          \/ e = "max_risk_per_trade"
                /\ ~(0 < risk.max_risk_per_trade
                       /\ risk.max_risk_per_trade <= MaxRiskLimit)
          \/ e = "max_daily_loss"
                /\ ~(0 < risk.max_daily_loss
                       /\ risk.max_daily_loss <= MaxDailyLossLimit)
          \/ e = "ensemble_weights"
                /\ SumOutOfTolerance(ml.ensemble_weights, rounds_out)}

\* validate_config
ValidateConfig ==
    /\ cpc = "ready"
    /\ valid = "not_called"
    /\ errors' = ValidateConfigErrors(typed, config_file.rounds_out)
    /\ valid' = IF ValidateConfigErrors(typed, config_file.rounds_out) = {}
                THEN "True" ELSE "False"
    /\ UNCHANGED <<collectorVars, histVars, featVars, threadVars, config_file,
                   config, typed, cpc, update, lookup>>

\* update_runtime_config(section, key, value): a section and key that exist
\* are assigned in self.config, then self.__init__(self.config_path) loads the
\* document again
UpdateRuntimeConfig ==
    /\ cpc = "ready"
    /\ ~update.called
    /\ \E section \in {"risk", "logging", "limits"},
          key \in {"max_risk_per_trade", "max_daily_loss", "max_exposure"},
          value \in {50} :
          LET found == section \in DOMAIN config /\ key \in DOMAIN config[section]
          IN /\ update' = [called |-> TRUE, section |-> section, key |-> key,
                           value |-> value, found |-> found, before |-> config]
             /\ IF found
                THEN ConfigManagerInit(config_file)
                ELSE UNCHANGED <<config, typed, cpc>>
    /\ UNCHANGED <<collectorVars, histVars, featVars, threadVars, config_file,
                   valid, errors, lookup>>

\* a collector or the extractor calls self.config.get('paths.logs') on its
\* ConfigManager: the class defines no attribute get
ComponentGet ==
    /\ cpc = "ready"
    /\ lookup = "not_called"
    /\ lookup' = "AttributeError"
    /\ UNCHANGED <<collectorVars, histVars, featVars, threadVars, config_file,
                   config, typed, cpc, valid, errors, update>>

\* the default document with one section or one field taken out
Without(doc, section) == [s \in DOMAIN doc \ {section} |-> doc[s]]
WithoutField(doc, section, field) ==
    [s \in DOMAIN doc |->
        IF s = section THEN [f \in DOMAIN doc[s] \ {field} |-> doc[s][f]]
        ELSE doc[s]]

\* the settings files: none, one that does not parse, and documents: the
\* default document with other values, or lacking a section or a field
SettingsFiles ==
    {[kind |-> k, doc |-> GetDefaultConfig, rounds_out |-> TRUE] :
        k \in {"missing", "yaml_error"}}
    \cup
    {[kind |-> "document", rounds_out |-> r,
      doc |-> [GetDefaultConfig EXCEPT
                  !.trading = [symbols |-> n, magic_number |-> m],
                  !.risk = [max_risk_per_trade |-> risk, max_daily_loss |-> loss],
                  !.ml = [ensemble_weights |-> sum]]] :
        r \in BOOLEAN, n \in {0, 2}, m \in {0, 778899},
        risk \in {0, 10, MaxRiskLimit, MaxRiskLimit + 1},
        loss \in {0, 30, MaxDailyLossLimit, MaxDailyLossLimit + 1},
        sum \in (WeightsTarget - 2)..(WeightsTarget + 2)}
    \cup
    {[kind |-> "document", rounds_out |-> TRUE,
      doc |-> Without(GetDefaultConfig, section)] :
        section \in DOMAIN GetDefaultConfig}
    \cup
    {[kind |-> "document", rounds_out |-> TRUE,
      doc |-> WithoutField(GetDefaultConfig, section, field)] :
        section \in {"trading"}, field \in {"symbols", "magic_number"}}
    \cup
    {[kind |-> "document", rounds_out |-> TRUE,
      doc |-> WithoutField(GetDefaultConfig, "paths", field)] :
        field \in PathFields}

InitConfig ==
    /\ InitCollector
    /\ InitHistoricalWith(<<>>)
    /\ tick_data = [columns |-> {}, rows |-> <<>>]
    /\ fpc = "ready" /\ warned = FALSE /\ df = <<>> /\ flow = <<>>
    /\ price_action = <<>> /\ calls = <<>>
    /\ workers = [w \in 1..MaxStarts |-> NoThread]
    /\ processing_thread = None
    /\ config_file \in SettingsFiles
    /\ config = NoDocument
    /\ typed = NoDocument
    /\ cpc = "new"
    /\ valid = "not_called"
    /\ errors = {}
    /\ update = NoUpdate
    /\ lookup = "not_called"

NextConfig ==
    \/ Construct
    \/ ValidateConfig
    \/ UpdateRuntimeConfig
    \/ ComponentGet

SpecConfig == InitConfig /\ [][NextConfig]_vars

\* the rules of validate_config as the specification states them, on the
\* typed objects
RulesViolated ==
    {e \in {"symbols", "magic_number", "max_risk_per_trade",
            "max_daily_loss", "ensemble_weights"} :
       \/ e = "symbols" /\ typed[1].symbols = 0
       \/ e = "magic_number" /\ ~(typed[1].magic_number > 0)
       \/ e = "max_risk_per_trade"
             /\ ~(0 < typed[2].max_risk_per_trade
                    /\ typed[2].max_risk_per_trade <= MaxRiskLimit)
       \/ e = "max_daily_loss"
             /\ ~(0 < typed[2].max_daily_loss
                    /\ typed[2].max_daily_loss <= MaxDailyLossLimit)
       \/ e = "ensemble_weights"
             /\ ~(/\ typed[4].ensemble_weights - WeightsTarget <= WeightsTolerance
                  /\ WeightsTarget - typed[4].ensemble_weights <= WeightsTolerance)}

\* C23 as stated: validate_config returns True exactly when the risk per trade
\* is in (0, 0.10], the daily loss in (0, 0.20], the ensemble weights sum to
\* within 0.01 of 1.0, there is a symbol and the magic number is positive; the
\* violations are reported together and nothing is raised
C23_Original ==
    valid # "not_called" =>
        /\ valid = "True" <=> RulesViolated = {}
        /\ errors = RulesViolated
        /\ cpc = "ready"

\* C24: when the settings file is missing or does not parse, __init__ ends
\* without an exception, self.config is the default document, and
\* validate_config returns True on it with no error reported
C24_DefaultOnMissingOrUnparseable ==
    config_file.kind \in {"missing", "yaml_error"} /\ cpc # "new" =>
        /\ cpc = "ready"
        /\ config = GetDefaultConfig
        /\ typed = TypedObjects(GetDefaultConfig)
        /\ valid # "not_called" => valid = "True" /\ errors = {}

C24_Witness ==
    /\ config_file.kind = "yaml_error"
    /\ cpc = "ready"
    /\ valid = "True"

\* C25 as stated: with a document that lacks a section or a field, neither
\* ConfigManager.__init__ nor a component's config.get lookup ends in an error
C25_Original ==
    /\ cpc \notin {"KeyError", "TypeError"}
    /\ lookup # "AttributeError"

\* C27 as stated: after update_runtime_config(section, key, value) for a
\* section and key that exist, config[section][key] is the value and the typed
\* object of the section holds it; for one that does not exist the document is
\* as before
C27_Original ==
    update.called =>
        IF update.found
        THEN /\ cpc = "ready"
             /\ config[update.section][update.key] = update.value
             /\ typed[2][update.key] = update.value
        ELSE config = update.before

====
